---- MODULE Spec2Model ----
(***************************************************************************)
(* Actor-critic policy-gradient training on CartPole                       *)
(* (generalized_advantage_estimation.py).                                  *)
(*                                                                         *)
(* Two specifications over one set of variables:                           *)
(*                                                                         *)
(*   Spec       the whole run train(epochs): the epoch loop, the 200       *)
(*              episode rollouts of every epoch at the granularity of the  *)
(*              calls run_one_episode makes (env.reset, value model,       *)
(*              policy model, env.step), each of which may raise, the      *)
(*              update sequence on the two models and the report line.     *)
(*              The environment is the one train() builds (CartPole:       *)
(*              reward 1 per step).  Tensors are kept by their lengths,    *)
(*              parameters by the number of optimizer updates applied to   *)
(*              them, the list epoch_episode_returns by its sum and its    *)
(*              length, and a printed line by its epoch index and the      *)
(*              train_one_epoch call whose result it formats.              *)
(*                                                                         *)
(*   SpecBatch  the data path of one train_one_epoch call with the values  *)
(*              kept: the rollout of run_one_episode against an arbitrary  *)
(*              environment, the returns, the epoch batch and the two      *)
(*              losses, for a batch of BatchEpisodes episodes.             *)
(*                                                                         *)
(* Tensor elements are exact rationals [num, den] in lowest terms.         *)
(***************************************************************************)
EXTENDS Integers, Sequences, FiniteSets

VARIABLES
    pc,                    \* position in the program
    epochs,                \* train: the argument
    epoch,                 \* train: the loop variable
    episode,               \* train_one_epoch: iterations of range(200) completed
    rewards,               \* run_one_episode: rewards
    batch_timesteps,       \* train_one_epoch: len(epoch_action_returns)
    epoch_episode_returns, \* train_one_epoch: the list, kept as [sum, len]
    average_return,        \* train: value returned by train_one_epoch
    policy_params,         \* number of updates applied to the policy model
    value_params,          \* number of updates applied to the value model
    policy_grad,           \* the policy model's .grad buffers hold a gradient
    value_grad,            \* the value model's .grad buffers hold a gradient
    events,                \* history: update calls made by this train_one_epoch
    output,                \* lines printed
    error,                 \* the exception that left train, or None
    calls_made,            \* history: train_one_epoch calls entered
    env_steps,             \* history: env.step calls returned in this call
    observation,               \* run_one_episode: observation
    action,                    \* run_one_episode: action
    log_probability_action,    \* run_one_episode: log_probability_action
    state_value_estimates,     \* run_one_episode: state_value_estimates
    log_probability_actions,   \* run_one_episode: log_probability_actions
    returned,                  \* the tuple run_one_episode returned, or None
    epoch_action_returns,          \* train_one_epoch: epoch_action_returns
    epoch_log_probability_actions, \* train_one_epoch: epoch_log_probability_actions
    epoch_state_value_estimates,   \* train_one_epoch: epoch_state_value_estimates
    policy_function_loss,          \* train_one_epoch: policy_function_loss
    value_function_loss,           \* train_one_epoch: value_function_loss
    calls,                 \* history: calls of this run_one_episode, in order
    trajectory             \* history: the timesteps of this train_one_epoch

TrainLocals == <<epochs, epoch, average_return, output>>

Models == <<policy_params, value_params, policy_grad, value_grad>>

EpochLocals == <<episode, batch_timesteps, epoch_episode_returns>>

RunHistory == <<events, error, calls_made, env_steps>>

EpisodeData == <<observation, action, log_probability_action,
                 state_value_estimates, log_probability_actions, returned, calls>>

BatchData == <<epoch_action_returns, epoch_log_probability_actions,
               epoch_state_value_estimates, policy_function_loss,
               value_function_loss, trajectory>>

vars == <<pc, rewards, TrainLocals, Models, EpochLocals, RunHistory,
          EpisodeData, BatchData>>

(***************************************************************************)
(* Bounds of the model                                                     *)
(***************************************************************************)
\* train(epochs) is run for every epochs in 0..MaxEpochs
MaxEpochs == 2

\* the environment signals termination at the latest on step MaxSteps
MaxSteps == 2

\* SpecBatch: the episodes of a batch (range(200) in the program)
BatchEpisodes == 2

(***************************************************************************)
(* Program constants                                                       *)
(***************************************************************************)
\* for _ in range(200)
EPISODES_PER_EPOCH == 200

\* the reward of every step of CartPole-v0, the environment train() makes
CARTPOLE_REWARD == 1

None == "None"

\* Variant: the gradient buffers are cleared after each model's own update,
\* between the two backward passes.
UpdateOrderClearBetween ==
    <<"value_backward", "value_step", "value_zero_grad", "policy_zero_grad",
      "policy_backward", "policy_step">>

\* Variant: the gradient buffers are cleared before the optimizers step.
UpdateOrderClearBeforeStep ==
    <<"value_backward", "policy_backward", "value_zero_grad",
      "policy_zero_grad", "value_step", "policy_step">>

\* the statements of train_one_epoch after the losses, in program order
UPDATE_ORDER ==
    <<"value_backward", "value_step", "policy_backward", "policy_step",
      "value_zero_grad", "policy_zero_grad">>

(***************************************************************************)
(* Python and numpy helpers                                                *)
(***************************************************************************)
\* sum(rewards)
RECURSIVE Sum(_)
Sum(s) == IF s = <<>> THEN 0 ELSE Head(s) + Sum(Tail(s))

\* [x] * n
Repeat(x, n) == [i \in 1..n |-> x]

\* Variant: the reward-to-go of every timestep.
RewardToGo(rs) == [i \in 1..Len(rs) |-> Sum(SubSeq(rs, i, Len(rs)))]

\* run_one_episode: action_returns = [episode_return] * total_timesteps
ActionReturns(rs) == Repeat(Sum(rs), Len(rs))

EmptyList == [sum |-> 0, len |-> 0]

\* epoch_episode_returns.append(x)
ListAppend(list, x) == [sum |-> list.sum + x, len |-> list.len + 1]

\* Variant: the mean over the timesteps of the batch.
MeanOverTimesteps(list) == <<list.sum, batch_timesteps>>

\* np.mean(epoch_episode_returns), as the fraction sum / len
NpMean(list) == <<list.sum, list.len>>

(***************************************************************************)
(* Spec: train, train_one_epoch and the calls of run_one_episode           *)
(***************************************************************************)
Init ==
    /\ epochs \in 0..MaxEpochs
    /\ pc = "train_loop"
    /\ epoch = 0
    /\ episode = 0
    /\ rewards = <<>>
    /\ batch_timesteps = 0
    /\ epoch_episode_returns = EmptyList
    /\ average_return = None
    /\ policy_params = 0
    /\ value_params = 0
    /\ policy_grad = FALSE
    /\ value_grad = FALSE
    /\ events = <<>>
    /\ output = <<>>
    /\ error = None
    /\ calls_made = 0
    /\ env_steps = 0
    /\ observation = None
    /\ action = None
    /\ log_probability_action = None
    /\ state_value_estimates = <<>>
    /\ log_probability_actions = <<>>
    /\ returned = None
    /\ calls = <<>>
    /\ epoch_action_returns = <<>>
    /\ epoch_log_probability_actions = <<>>
    /\ epoch_state_value_estimates = <<>>
    /\ policy_function_loss = None
    /\ value_function_loss = None
    /\ trajectory = <<>>

\* Variant: the exception is caught in train_one_epoch, which goes on with
\* the next episode.
RaiseSwallowed(exception) ==
    /\ pc' = "epoch_loop"
    /\ error' = exception
    /\ UNCHANGED <<TrainLocals, Models, EpochLocals, events, calls_made,
                   env_steps, rewards>>

\* An exception raised by a call of run_one_episode: there is no try in
\* run_one_episode, train_one_epoch or train, so it leaves all three; their
\* frames are gone, the models and what was printed stay as they are.
Raise(exception) ==
    /\ pc' = "raised"
    /\ error' = exception
    /\ episode' = 0
    /\ rewards' = <<>>
    /\ batch_timesteps' = 0
    /\ epoch_episode_returns' = EmptyList
    /\ events' = <<>>
    /\ env_steps' = 0
    /\ UNCHANGED <<TrainLocals, Models, calls_made>>

\* for epoch in range(epochs): call train_one_epoch, or leave the loop
TrainLoop ==
    /\ pc = "train_loop"
    /\ IF epoch < epochs
       THEN /\ pc' = "epoch_loop"
            /\ calls_made' = calls_made + 1
            /\ episode' = 0
            /\ batch_timesteps' = 0
            /\ epoch_episode_returns' = EmptyList
            /\ events' = <<>>
            /\ env_steps' = 0
       ELSE /\ pc' = "done"
            /\ UNCHANGED <<EpochLocals, events, calls_made, env_steps>>
    /\ UNCHANGED <<TrainLocals, Models, rewards, error, EpisodeData, BatchData>>

\* for _ in range(200): call run_one_episode, or go on to the losses
EpochLoop ==
    /\ pc = "epoch_loop"
    /\ pc' = IF episode < EPISODES_PER_EPOCH THEN "reset" ELSE "losses"
    /\ rewards' = <<>>
    /\ UNCHANGED <<TrainLocals, Models, EpochLocals, RunHistory, EpisodeData,
                   BatchData>>

\* observation = env.reset()
EnvReset ==
    /\ pc = "reset"
    /\ \/ /\ pc' = "value"
          /\ UNCHANGED <<TrainLocals, Models, EpochLocals, RunHistory, rewards>>
       \/ Raise("env.reset")
    /\ UNCHANGED <<EpisodeData, BatchData>>

\* state_value_estimate = value_function_model(torch.as_tensor(observation))
ValueEstimate ==
    /\ pc = "value"
    /\ \/ /\ pc' = "policy"
          /\ UNCHANGED <<TrainLocals, Models, EpochLocals, RunHistory, rewards>>
       \/ Raise("value_function_model")
    /\ UNCHANGED <<EpisodeData, BatchData>>

\* policy = get_policy(policy_function_model, observation)
\* action, log_probability_action = get_action(policy)
PolicyAct ==
    /\ pc = "policy"
    /\ \/ /\ pc' = "step"
          /\ UNCHANGED <<TrainLocals, Models, EpochLocals, RunHistory, rewards>>
       \/ Raise("policy_function_model")
    /\ UNCHANGED <<EpisodeData, BatchData>>

\* observation, reward, done, _ = env.step(action); rewards.append(reward)
\* if done == True: break
EnvStep ==
    /\ pc = "step"
    /\ \/ \E done \in BOOLEAN :
            /\ Len(rewards) + 1 < MaxSteps \/ done
            /\ rewards' = Append(rewards, CARTPOLE_REWARD)
            /\ env_steps' = env_steps + 1
            /\ pc' = IF done THEN "episode_return" ELSE "value"
            /\ UNCHANGED <<TrainLocals, Models, EpochLocals, events, error,
                           calls_made>>
       \/ Raise("env.step")
    /\ UNCHANGED <<EpisodeData, BatchData>>

\* run_one_episode returns (action_returns, ..., episode_return) and
\* train_one_epoch extends its lists with them
EpisodeReturn ==
    /\ pc = "episode_return"
    /\ LET action_returns == ActionReturns(rewards)
           episode_return == Sum(rewards)
       IN  /\ batch_timesteps' = batch_timesteps + Len(action_returns)
           /\ epoch_episode_returns' =
                  ListAppend(epoch_episode_returns, episode_return)
    /\ episode' = episode + 1
    /\ rewards' = <<>>
    /\ pc' = "epoch_loop"
    /\ UNCHANGED <<TrainLocals, Models, RunHistory, EpisodeData, BatchData>>

\* the statement that follows an update statement of train_one_epoch
AfterUpdate(call) ==
    LET i == CHOOSE k \in 1..Len(UPDATE_ORDER) : UPDATE_ORDER[k] = call
    IN  IF i < Len(UPDATE_ORDER) THEN UPDATE_ORDER[i + 1] ELSE "epoch_return"

\* policy_function_loss = calculate_policy_fn_loss(...)
\* value_function_loss = calculate_value_fn_loss(...)
CalculateLosses ==
    /\ pc = "losses"
    /\ pc' = UPDATE_ORDER[1]
    /\ UNCHANGED <<TrainLocals, Models, EpochLocals, RunHistory, rewards,
                   EpisodeData, BatchData>>

\* value_function_loss.backward(): the loss depends on the value model only
ValueBackward ==
    /\ pc = "value_backward"
    /\ value_grad' = TRUE
    /\ events' = Append(events, "value_backward")
    /\ pc' = AfterUpdate("value_backward")
    /\ UNCHANGED <<TrainLocals, policy_params, value_params, policy_grad,
                   EpochLocals, error, calls_made, env_steps, rewards,
                   EpisodeData, BatchData>>

\* value_function_optimizer.step(): updates the parameters that have a gradient
ValueStep ==
    /\ pc = "value_step"
    /\ value_params' = IF value_grad THEN value_params + 1 ELSE value_params
    /\ events' = Append(events, "value_step")
    /\ pc' = AfterUpdate("value_step")
    /\ UNCHANGED <<TrainLocals, policy_params, policy_grad, value_grad,
                   EpochLocals, error, calls_made, env_steps, rewards,
                   EpisodeData, BatchData>>

\* policy_function_loss.backward(): the loss depends on the policy model only
PolicyBackward ==
    /\ pc = "policy_backward"
    /\ policy_grad' = TRUE
    /\ events' = Append(events, "policy_backward")
    /\ pc' = AfterUpdate("policy_backward")
    /\ UNCHANGED <<TrainLocals, policy_params, value_params, value_grad,
                   EpochLocals, error, calls_made, env_steps, rewards,
                   EpisodeData, BatchData>>

\* policy_function_optimizer.step()
PolicyStep ==
    /\ pc = "policy_step"
    /\ policy_params' = IF policy_grad THEN policy_params + 1 ELSE policy_params
    /\ events' = Append(events, "policy_step")
    /\ pc' = AfterUpdate("policy_step")
    /\ UNCHANGED <<TrainLocals, value_params, policy_grad, value_grad,
                   EpochLocals, error, calls_made, env_steps, rewards,
                   EpisodeData, BatchData>>

\* value_function_optimizer.zero_grad()
ValueZeroGrad ==
    /\ pc = "value_zero_grad"
    /\ value_grad' = FALSE
    /\ events' = Append(events, "value_zero_grad")
    /\ pc' = AfterUpdate("value_zero_grad")
    /\ UNCHANGED <<TrainLocals, policy_params, value_params, policy_grad,
                   EpochLocals, error, calls_made, env_steps, rewards,
                   EpisodeData, BatchData>>

\* policy_function_optimizer.zero_grad()
PolicyZeroGrad ==
    /\ pc = "policy_zero_grad"
    /\ policy_grad' = FALSE
    /\ events' = Append(events, "policy_zero_grad")
    /\ pc' = AfterUpdate("policy_zero_grad")
    /\ UNCHANGED <<TrainLocals, policy_params, value_params, value_grad,
                   EpochLocals, error, calls_made, env_steps, rewards,
                   EpisodeData, BatchData>>

\* return np.mean(epoch_episode_returns)
EpochReturn ==
    /\ pc = "epoch_return"
    /\ average_return' =
           [call |-> calls_made, mean |-> NpMean(epoch_episode_returns)]
    /\ pc' = "print"
    /\ UNCHANGED <<epochs, epoch, output, Models, EpochLocals, RunHistory,
                   rewards, EpisodeData, BatchData>>

\* Variant: the line carries a one-based epoch index.
ReportLineOneBased(e, r) == [epoch |-> e + 1, call |-> r.call]

\* the line print writes for (epoch, average_return)
ReportLine(e, r) == [epoch |-> e, call |-> r.call]

\* print('epoch: %3d \t return: %.3f' % (epoch, average_return)), and the
\* loop's next value of epoch. average_return is not read again before the next
\* call's result overwrites it: the model forgets it here.
PrintEpoch ==
    /\ pc = "print"
    /\ output' = Append(output, ReportLine(epoch, average_return))
    /\ average_return' = None
    /\ epoch' = epoch + 1
    /\ pc' = "train_loop"
    /\ UNCHANGED <<epochs, Models, EpochLocals, RunHistory, rewards,
                   EpisodeData, BatchData>>

Next ==
    \/ TrainLoop
    \/ EpochLoop
    \/ EnvReset
    \/ ValueEstimate
    \/ PolicyAct
    \/ EnvStep
    \/ EpisodeReturn
    \/ CalculateLosses
    \/ ValueBackward
    \/ ValueStep
    \/ PolicyBackward
    \/ PolicyStep
    \/ ValueZeroGrad
    \/ PolicyZeroGrad
    \/ EpochReturn
    \/ PrintEpoch

Spec == Init /\ [][Next]_vars

(***************************************************************************)
(* Exact rationals                                                         *)
(***************************************************************************)
Abs(n) == IF n < 0 THEN -n ELSE n

RECURSIVE Gcd(_, _)
Gcd(a, b) == IF b = 0 THEN a ELSE Gcd(b, a % b)

\* n / d in lowest terms, d # 0
Rat(n, d) ==
    LET g == Gcd(Abs(n), Abs(d))
        s == IF d < 0 THEN -1 ELSE 1
    IN  [num |-> (s * n) \div g, den |-> (s * d) \div g]

FromInt(n) == Rat(n, 1)

RatAdd(a, b) == Rat(a.num * b.den + b.num * a.den, a.den * b.den)

RatSub(a, b) == Rat(a.num * b.den - b.num * a.den, a.den * b.den)

RatMul(a, b) == Rat(a.num * b.num, a.den * b.den)

RatNeg(a) == Rat(-a.num, a.den)

RECURSIVE RatSum(_)
RatSum(s) == IF s = <<>> THEN FromInt(0) ELSE RatAdd(Head(s), RatSum(Tail(s)))

(***************************************************************************)
(* Tensors: a shape (rank at most 2) and the elements in row-major order   *)
(***************************************************************************)
Tensor(shape, data) == [shape |-> shape, data |-> data]

\* torch.as_tensor(list of numbers): shape [N]
AsTensor(list) == Tensor(<<Len(list)>>, [i \in 1..Len(list) |-> FromInt(list[i])])

Numel(shape) == IF shape = <<>> THEN 1
                ELSE IF Len(shape) = 1 THEN shape[1] ELSE shape[1] * shape[2]

\* torch.stack(tensors): N tensors of one shape s give shape [N] + s
TorchStack(tensors) ==
    LET s == tensors[1].shape
        k == Numel(s)
    IN  Tensor(<<Len(tensors)>> \o s,
               [i \in 1..(Len(tensors) * k) |->
                   tensors[((i - 1) \div k) + 1].data[((i - 1) % k) + 1]])

\* the shape right-aligned to rank 2
Rows(shape) == IF Len(shape) = 2 THEN shape[1] ELSE 1

Cols(shape) == IF shape = <<>> THEN 1 ELSE shape[Len(shape)]

Max(a, b) == IF a >= b THEN a ELSE b

\* element (i, j) of t broadcast: a dimension of size 1 is repeated
At(t, i, j) ==
    LET r == IF Rows(t.shape) = 1 THEN 1 ELSE i
        c == IF Cols(t.shape) = 1 THEN 1 ELSE j
    IN  t.data[(r - 1) * Cols(t.shape) + c]

\* the shape of an elementwise result under torch's broadcasting rules
BroadcastShape(a, b) ==
    LET rows == Max(Rows(a.shape), Rows(b.shape))
        cols == Max(Cols(a.shape), Cols(b.shape))
        rank == Max(Len(a.shape), Len(b.shape))
    IN  IF rank = 0 THEN <<>>
        ELSE IF rank = 1 THEN <<cols>> ELSE <<rows, cols>>

\* row and column of the k-th element of a tensor of that shape
RowOf(shape, k) == ((k - 1) \div Cols(shape)) + 1

ColOf(shape, k) == ((k - 1) % Cols(shape)) + 1

\* a - b
TensorSub(a, b) ==
    LET shape == BroadcastShape(a, b)
    IN  Tensor(shape,
               [k \in 1..Numel(shape) |->
                   RatSub(At(a, RowOf(shape, k), ColOf(shape, k)),
                          At(b, RowOf(shape, k), ColOf(shape, k)))])

\* a * b
TensorMul(a, b) ==
    LET shape == BroadcastShape(a, b)
    IN  Tensor(shape,
               [k \in 1..Numel(shape) |->
                   RatMul(At(a, RowOf(shape, k), ColOf(shape, k)),
                          At(b, RowOf(shape, k), ColOf(shape, k)))])

\* a ** 2
TensorSquare(a) == Tensor(a.shape, [k \in 1..Len(a.data) |-> RatMul(a.data[k], a.data[k])])

\* a.mean(): over all elements
TensorMean(a) ==
    LET total == RatSum(a.data)
    IN  Rat(total.num, total.den * Len(a.data))

(***************************************************************************)
(* The losses                                                              *)
(***************************************************************************)
\* calculate_value_fn_loss
CalculateValueFnLoss(action_returns, value_estimate_list) ==
    LET value_estimates == TorchStack(value_estimate_list)
        returns == AsTensor(action_returns)
    IN  TensorMean(TensorSquare(TensorSub(value_estimates, returns)))

\* Variant: the negated sum, not the mean.
PolicyLossSum(log_probability_tensor, action_rewards) ==
    RatNeg(RatSum(TensorMul(log_probability_tensor, action_rewards).data))

\* calculate_policy_fn_loss
CalculatePolicyFnLoss(log_probability_tensor, action_rewards) ==
    RatNeg(TensorMean(TensorMul(log_probability_tensor, action_rewards)))

(***************************************************************************)
(* SpecBatch: the environment and the two models                           *)
(***************************************************************************)
Observations == {0, 1}

Actions == {0, 1}

\* value_function_model(observation): create_model(.., 1) ends in a Linear
\* layer with one output feature, so the estimate is a tensor of shape [1]
ValueModel(obs) == Tensor(<<1>>, <<FromInt(obs + 1)>>)

\* policy.log_prob(action) for the sampled action: a tensor of shape []
LogProb(obs, act) == Tensor(<<>>, <<Rat(-(act + 1), 2)>>)

\* the reward env.step(action) gives in the state observed as obs
Reward(obs, act) == obs + 1 - 2 * act

\* the observation env.step(action) gives in the state observed as obs
NextObservation(obs, act) == (obs + act) % 2

(***************************************************************************)
(* SpecBatch: run_one_episode and the data path of train_one_epoch         *)
(***************************************************************************)
InitBatch ==
    /\ epochs = 1
    /\ pc = "batch_loop"
    /\ epoch = 0
    /\ episode = 0
    /\ rewards = <<>>
    /\ batch_timesteps = 0
    /\ epoch_episode_returns = EmptyList
    /\ average_return = None
    /\ policy_params = 0
    /\ value_params = 0
    /\ policy_grad = FALSE
    /\ value_grad = FALSE
    /\ events = <<>>
    /\ output = <<>>
    /\ error = None
    /\ calls_made = 1
    /\ env_steps = 0
    /\ observation = None
    /\ action = None
    /\ log_probability_action = None
    /\ state_value_estimates = <<>>
    /\ log_probability_actions = <<>>
    /\ returned = None
    /\ calls = <<>>
    /\ epoch_action_returns = <<>>
    /\ epoch_log_probability_actions = <<>>
    /\ epoch_state_value_estimates = <<>>
    /\ policy_function_loss = None
    /\ value_function_loss = None
    /\ trajectory = <<>>

Call(op, arg, result) == [op |-> op, arg |-> arg, result |-> result]

\* for _ in range(..): call run_one_episode (its three empty lists), or go on
BatchLoop ==
    /\ pc = "batch_loop"
    /\ pc' = IF episode < BatchEpisodes THEN "roll_reset" ELSE "batch_losses"
    /\ rewards' = <<>>
    /\ state_value_estimates' = <<>>
    /\ log_probability_actions' = <<>>
    /\ calls' = <<>>
    /\ UNCHANGED <<TrainLocals, Models, EpochLocals, RunHistory, observation,
                   action, log_probability_action, returned, BatchData>>

\* observation = env.reset()
RollReset ==
    /\ pc = "roll_reset"
    /\ \E first \in Observations :
          /\ observation' = first
          /\ calls' = Append(calls, Call("env.reset", None, first))
    /\ pc' = "roll_value"
    /\ UNCHANGED <<TrainLocals, Models, EpochLocals, RunHistory, rewards,
                   action, log_probability_action, state_value_estimates,
                   log_probability_actions, returned, BatchData>>

\* state_value_estimate = value_function_model(torch.as_tensor(observation))
\* state_value_estimates.append(state_value_estimate)
RollValue ==
    /\ pc = "roll_value"
    /\ state_value_estimates' =
           Append(state_value_estimates, ValueModel(observation))
    /\ calls' = Append(calls, Call("value_function_model", observation,
                                   ValueModel(observation)))
    /\ pc' = "roll_policy"
    /\ UNCHANGED <<TrainLocals, Models, EpochLocals, RunHistory, rewards,
                   observation, action, log_probability_action,
                   log_probability_actions, returned, BatchData>>

\* policy = get_policy(policy_function_model, observation)
\* action, log_probability_action = get_action(policy)
RollPolicy ==
    /\ pc = "roll_policy"
    /\ \E sampled \in Actions :
          /\ action' = sampled
          /\ log_probability_action' = LogProb(observation, sampled)
          /\ calls' = Append(calls, Call("policy_function_model", observation,
                                         sampled))
    /\ pc' = "roll_step"
    /\ UNCHANGED <<TrainLocals, Models, EpochLocals, RunHistory, rewards,
                   observation, state_value_estimates, log_probability_actions,
                   returned, BatchData>>

\* Variant: the loop is left on the steps that do not end the episode.
AfterStepInverted(done) == IF done = TRUE THEN "roll_value" ELSE "roll_return"

\* if done == True: break
AfterStep(done) == IF done = TRUE THEN "roll_return" ELSE "roll_value"

\* observation, reward, done, _ = env.step(action)
\* rewards.append(reward); log_probability_actions.append(..)
\* if done == True: break
RollStep ==
    /\ pc = "roll_step"
    /\ \E done \in BOOLEAN :
          LET reward == Reward(observation, action)
              next_observation == NextObservation(observation, action)
          IN  /\ Len(rewards) + 1 < MaxSteps \/ done
              /\ observation' = next_observation
              /\ rewards' = Append(rewards, reward)
              /\ log_probability_actions' =
                     Append(log_probability_actions, log_probability_action)
              /\ calls' = Append(calls, Call("env.step", action,
                                   <<next_observation, reward, done>>))
              /\ trajectory' = Append(trajectory,
                     [episode |-> episode, observation |-> observation,
                      action |-> action, reward |-> reward])
              /\ pc' = AfterStep(done)
    /\ env_steps' = env_steps + 1
    /\ UNCHANGED <<TrainLocals, Models, EpochLocals, events, error, calls_made,
                   action, log_probability_action, state_value_estimates,
                   returned, epoch_action_returns,
                   epoch_log_probability_actions, epoch_state_value_estimates,
                   policy_function_loss, value_function_loss>>

\* episode_return = sum(rewards); total_timesteps = len(rewards)
\* action_returns = [episode_return] * total_timesteps
\* return action_returns, log_probability_actions, state_value_estimates,
\*        episode_return
RollReturn ==
    /\ pc = "roll_return"
    /\ returned' = [action_returns |-> ActionReturns(rewards),
                    log_probability_actions |-> log_probability_actions,
                    state_value_estimates |-> state_value_estimates,
                    episode_return |-> Sum(rewards)]
    /\ pc' = "batch_extend"
    /\ UNCHANGED <<TrainLocals, Models, EpochLocals, RunHistory, rewards,
                   observation, action, log_probability_action,
                   state_value_estimates, log_probability_actions, calls,
                   BatchData>>

\* epoch_action_returns += action_returns, ...,
\* epoch_episode_returns.append(episode_return); the frame of run_one_episode
\* is gone
BatchExtend ==
    /\ pc = "batch_extend"
    /\ epoch_action_returns' = epoch_action_returns \o returned.action_returns
    /\ epoch_log_probability_actions' =
           epoch_log_probability_actions \o returned.log_probability_actions
    /\ epoch_state_value_estimates' =
           epoch_state_value_estimates \o returned.state_value_estimates
    /\ epoch_episode_returns' =
           ListAppend(epoch_episode_returns, returned.episode_return)
    /\ batch_timesteps' = batch_timesteps + Len(returned.action_returns)
    /\ episode' = episode + 1
    /\ rewards' = <<>>
    /\ observation' = None
    /\ action' = None
    /\ log_probability_action' = None
    /\ state_value_estimates' = <<>>
    /\ log_probability_actions' = <<>>
    /\ returned' = None
    /\ calls' = <<>>
    /\ pc' = "batch_loop"
    /\ UNCHANGED <<TrainLocals, Models, RunHistory, policy_function_loss,
                   value_function_loss, trajectory>>

\* policy_function_loss = calculate_policy_fn_loss(
\*     torch.stack(epoch_log_probability_actions),
\*     torch.as_tensor(epoch_action_returns))
\* value_function_loss = calculate_value_fn_loss(
\*     epoch_action_returns, epoch_state_value_estimates)
BatchLosses ==
    /\ pc = "batch_losses"
    /\ policy_function_loss' =
           CalculatePolicyFnLoss(TorchStack(epoch_log_probability_actions),
                                 AsTensor(epoch_action_returns))
    /\ value_function_loss' =
           CalculateValueFnLoss(epoch_action_returns,
                                epoch_state_value_estimates)
    /\ pc' = "batch_done"
    /\ UNCHANGED <<TrainLocals, Models, EpochLocals, RunHistory, rewards,
                   EpisodeData, epoch_action_returns,
                   epoch_log_probability_actions, epoch_state_value_estimates,
                   trajectory>>

NextBatch ==
    \/ BatchLoop
    \/ RollReset
    \/ RollValue
    \/ RollPolicy
    \/ RollStep
    \/ RollReturn
    \/ BatchExtend
    \/ BatchLosses

SpecBatch == InitBatch /\ [][NextBatch]_vars

(***************************************************************************)
(* Reference quantities, computed from the histories                       *)
(***************************************************************************)
IsPrefix(s, t) == Len(s) <= Len(t) /\ \A i \in 1..Len(s) : s[i] = t[i]

\* the env.step calls of the current run_one_episode, in order
StepCalls == SelectSeq(calls, LAMBDA c : c.op = "env.step")

\* the sum of the rewards env.step gave in the current run_one_episode
StepRewardTotal == Sum([t \in 1..Len(StepCalls) |-> StepCalls[t].result[2]])

\* timestep i of the epoch: the sum of all rewards of its episode
EpisodeTotal(i) ==
    Sum([j \in 1..Len(trajectory) |->
            IF trajectory[j].episode = trajectory[i].episode
            THEN trajectory[j].reward ELSE 0])

\* timestep i of the epoch: the critic's estimate of the state acted in
Estimate(i) == trajectory[i].observation + 1

\* timestep i of the epoch: the log-probability of the action taken
LogProbability(i) == Rat(-(trajectory[i].action + 1), 2)

\* (1/N) * sum_i terms[i]
TimestepMean(terms) == RatMul(RatSum(terms), Rat(1, Len(terms)))

SquaredErrors ==
    [i \in 1..Len(trajectory) |->
        FromInt((Estimate(i) - EpisodeTotal(i)) * (Estimate(i) - EpisodeTotal(i)))]

WeightedByReturn ==
    [i \in 1..Len(trajectory) |->
        RatMul(LogProbability(i), FromInt(EpisodeTotal(i)))]

WeightedByAdvantage ==
    [i \in 1..Len(trajectory) |->
        RatMul(LogProbability(i), FromInt(EpisodeTotal(i) - Estimate(i)))]

(***************************************************************************)
(* C1: whatever the episode's length (1 included), run_one_episode returns *)
(* one return per env.step call it made, every one of them equal to the    *)
(* sum of all rewards of the episode, and episode_return is that sum.      *)
(***************************************************************************)
C1_ReturnsAreEpisodeTotal ==
    pc = "batch_extend" =>
        /\ Len(returned.action_returns) = Len(StepCalls)
        /\ Len(StepCalls) >= 1
        /\ \A t \in 1..Len(returned.action_returns) :
               returned.action_returns[t] = StepRewardTotal
        /\ returned.episode_return = StepRewardTotal

\* the second episode returns after two steps with different rewards, the
\* first one having ended on its first step
C1_Witness ==
    /\ pc = "batch_extend"
    /\ Len(returned.action_returns) = 2
    /\ rewards[1] # rewards[2]
    /\ episode = 1
    /\ Len(epoch_action_returns) = 1

(***************************************************************************)
(* C2: the value loss of the epoch batch is the mean squared error between *)
(* each timestep's value estimate and the return of the same timestep,     *)
(* (1/N) * sum_i (v_i - r_i)^2; so it is 0 when every estimate equals its  *)
(* own return.                                                             *)
(***************************************************************************)
C2_ValueLossIsSameIndexMSE ==
    pc = "batch_done" => value_function_loss = TimestepMean(SquaredErrors)

C4_PolicyLossIsBaselined ==
    pc = "batch_done" =>
        policy_function_loss = RatNeg(TimestepMean(WeightedByAdvantage))

(***************************************************************************)
(* C5: the update calls of train_one_epoch are made in the order value     *)
(* backward, value step, policy backward, policy step, and then the two    *)
(* zero_grad calls; no buffer is cleared earlier, and both are clear when  *)
(* the call returns.                                                       *)
(***************************************************************************)
C5_Order ==
    <<"value_backward", "value_step", "policy_backward", "policy_step",
      "value_zero_grad", "policy_zero_grad">>

C5_UpdateOrder ==
    /\ IsPrefix(events, C5_Order)
    /\ Len(events) \in 1..4 => value_grad
    /\ Len(events) \in 3..4 => policy_grad
    /\ pc \in {"print", "train_loop", "done"} /\ calls_made > 0 =>
           /\ events = C5_Order
           /\ ~value_grad
           /\ ~policy_grad

\* the second epoch's train_one_epoch has returned
C5_Witness == pc = "print" /\ epoch = 1 /\ Len(events) = 6

(***************************************************************************)
(* C6: no parameter changes during the rollouts of an epoch, so its 200    *)
(* episodes run under one snapshot; each model is updated exactly once per *)
(* epoch, after all 200 episodes.                                          *)
(***************************************************************************)
RolloutPcs ==
    {"epoch_loop", "reset", "value", "policy", "step", "episode_return",
     "losses"}

C6_OneUpdateAfterRollouts ==
    /\ pc \in RolloutPcs => policy_params = epoch /\ value_params = epoch
    /\ policy_params # epoch \/ value_params # epoch => episode = 200
    /\ policy_params \in {epoch, epoch + 1}
    /\ value_params \in {epoch, epoch + 1}
    /\ pc = "print" =>
           /\ episode = 200
           /\ policy_params = epoch + 1
           /\ value_params = epoch + 1
    /\ pc \in {"train_loop", "done"} =>
           policy_params = epoch /\ value_params = epoch

\* the last episode of the second epoch is running under the parameters the
\* first epoch left
C6_Witness ==
    /\ pc = "step"
    /\ episode = 199
    /\ epoch = 1
    /\ policy_params = 1
    /\ value_params = 1

(***************************************************************************)
(* C7: train_one_epoch runs exactly 200 episodes and returns the sum of    *)
(* their returns divided by 200, whatever their lengths; the mean does not *)
(* exist yet when the losses are computed and applied.                     *)
(***************************************************************************)
C7_MeanOf200Episodes ==
    /\ episode <= 200
    /\ pc = "print" =>
           /\ episode = 200
           /\ average_return.mean = <<CARTPOLE_REWARD * env_steps, 200>>
    /\ pc \in {"losses"} \cup {C5_Order[i] : i \in 1..6} =>
           /\ episode = 200
           /\ average_return = None

\* an epoch of 100 one-step and 100 two-step episodes has returned
C7_Witness == pc = "print" /\ env_steps = 300 /\ average_return.mean = <<300, 200>>

(***************************************************************************)
(* C8: an error raised by env.reset, env.step or a model during an episode *)
(* ends the run: nothing runs after it, the epoch's optimizer steps are    *)
(* not applied, its report line is not printed.                            *)
(***************************************************************************)
C8_FailFast ==
    /\ error # None <=> pc = "raised"
    /\ pc = "raised" =>
           /\ error \in {"env.reset", "env.step", "value_function_model",
                         "policy_function_model"}
           /\ policy_params = epoch
           /\ value_params = epoch
           /\ Len(output) = epoch
           /\ calls_made = epoch + 1
           /\ ~ENABLED Next

\* env.step raised in the second epoch
C8_Witness ==
    /\ pc = "raised"
    /\ error = "env.step"
    /\ epoch = 1
    /\ Len(output) = 1

(***************************************************************************)
(* C9: run_one_episode resets the environment once, then per timestep      *)
(* evaluates the value model on the current observation, the policy on the *)
(* same observation, and steps the environment once with the sampled       *)
(* action; it leaves the loop right after the first step whose done flag   *)
(* is true; what it returns has one entry per env.step call, in time order.*)
(***************************************************************************)
ExpectedOp(k) ==
    IF k = 1 THEN "env.reset"
    ELSE IF (k - 2) % 3 = 0 THEN "value_function_model"
    ELSE IF (k - 2) % 3 = 1 THEN "policy_function_model"
    ELSE "env.step"

C9_Protocol ==
    /\ \A k \in 1..Len(calls) :
          /\ calls[k].op = ExpectedOp(k)
          /\ calls[k].op = "value_function_model" =>
                 calls[k].arg = IF k = 2 THEN calls[1].result
                                ELSE calls[k - 1].result[1]
          /\ calls[k].op = "policy_function_model" =>
                 calls[k].arg = calls[k - 1].arg
          /\ calls[k].op = "env.step" =>
                 /\ calls[k].arg = calls[k - 1].result
                 /\ calls[k].result[3] = TRUE =>
                        k = Len(calls) /\ pc \in {"roll_return", "batch_extend"}
    /\ pc \in {"roll_return", "batch_extend"} =>
          /\ Len(calls) >= 4
          /\ calls[Len(calls)].op = "env.step"
          /\ calls[Len(calls)].result[3] = TRUE
          /\ Len(rewards) = Len(StepCalls)
          /\ Len(log_probability_actions) = Len(StepCalls)
          /\ Len(state_value_estimates) = Len(StepCalls)
          /\ \A t \in 1..Len(StepCalls) :
                /\ rewards[t] = calls[3 * t + 1].result[2]
                /\ state_value_estimates[t] = calls[3 * t - 1].result
                /\ log_probability_actions[t] =
                       LogProb(calls[3 * t].arg, calls[3 * t].result)
    /\ pc = "batch_extend" =>
          /\ returned.log_probability_actions = log_probability_actions
          /\ returned.state_value_estimates = state_value_estimates
          /\ Len(returned.action_returns) = Len(StepCalls)

\* run_one_episode has returned after two timesteps in different states
\* with different actions
C9_Witness ==
    /\ pc = "batch_extend"
    /\ Len(calls) = 7
    /\ calls[2].arg # calls[5].arg
    /\ calls[4].arg # calls[7].arg

(***************************************************************************)
(* C10: train(epochs) runs epochs epochs one after another on the same     *)
(* models, whose parameters carry over, and after each prints one line     *)
(* with the zero-based epoch index and that call's mean return; it then    *)
(* ends, and train(0) runs no epoch and prints nothing.                    *)
(***************************************************************************)
C10_EpochsAndReport ==
    /\ Len(output) = epoch
    /\ \A i \in 1..Len(output) : output[i] = [epoch |-> i - 1, call |-> i]
    /\ calls_made <= epochs
    /\ calls_made \in {epoch, epoch + 1}
    /\ pc = "epoch_loop" => policy_params = epoch /\ value_params = epoch
    /\ pc = "print" => average_return.call = epoch + 1
    /\ pc = "done" =>
           /\ Len(output) = epochs
           /\ calls_made = epochs
           /\ policy_params = epochs
           /\ value_params = epochs
           /\ ~ENABLED Next
    /\ pc \notin {"done", "raised"} => ENABLED Next

\* train(MaxEpochs) has ended
C10_Witness == pc = "done" /\ epochs = MaxEpochs /\ Len(output) = MaxEpochs /\ epochs >= 2

====
